---- MODULE Spec2Model ----
(***************************************************************************)
(* UniversalDateTimeInput (src/components/datepicker.tsx): the text        *)
(* synchronisation engine and the picker state machine of the date/time    *)
(* editor, hosted by the react-hook-form Controller of src/app/index.tsx.  *)
(*                                                                         *)
(* A Date is a record of its local-clock fields; a text is a sequence of   *)
(* one-character strings, so that formatting and strict parsing are        *)
(* computed character by character.                                        *)
(***************************************************************************)
EXTENDS Integers, Sequences, FiniteSets, TLC

VARIABLES
    value,        \* prop `value`: the canonical Date, owned by the host
    mode,         \* prop `mode`: "date" | "datetime", fixed per instance
    platform,     \* Platform.OS, fixed per host environment
    show,         \* useState: the picker is rendered
    pickerMode,   \* useState: "date" | "time"
    tempDate,     \* useState: the date carried across the two-step flow
    text,         \* useState: the editable text
    error,        \* useState: the stored error message, or null
    touched,      \* useState: the dirty flag
    ev,           \* history: the last event delivered to the component
    emitted,      \* history: the Dates the last event passed to onChange
    typed,        \* history: text was last written by a user edit
    pickedDate,   \* history: the Date the date step of this session delivered
    sessionEmits  \* history: onChange calls of the picker since openPicker

vars == <<value, mode, platform, show, pickerMode, tempDate, text, error,
          touched, ev, emitted, typed, pickedDate, sessionEmits>>

(***************************************************************************)
(* Bounds of the model.                                                    *)
(***************************************************************************)
\* the hosts and the picker deliver days 1..MaxDay of June 2024
MaxDay == 2

(***************************************************************************)
(* Dates.                                                                  *)
(***************************************************************************)
MkDate(y, mo, d, h, mi, s, ms) ==
    [year |-> y, month |-> mo, day |-> d, hour |-> h, minute |-> mi,
     second |-> s, ms |-> ms]

\* `selectedDate?: Date` left out by the picker
undefined == MkDate(0, 0, 0, 0, 0, 0, 0)

\* new Date('') : dayjs's invalid date
InvalidDate == MkDate(-1, -1, -1, -1, -1, -1, -1)

\* the error state when no error is stored
null == "null"

Modes == {"date", "datetime"}
Platforms == {"android", "ios"}

\* time of day <<hour, minute, second, millisecond>> of the Dates the host
\* and the native picker deliver: they carry seconds (new Date()).
TimesOfDay == {<<14, 30, 0, 0>>, <<9, 5, 45, 500>>}

\* Dates the host supplies and the native picker delivers; the picker sets
\* no minimumDate/maximumDate, so a year outside 1900..2100 can be chosen.
Instants ==
    {MkDate(2024, 6, d, t[1], t[2], t[3], t[4]) : d \in 1..MaxDay, t \in TimesOfDay}
    \cup {MkDate(1850, 6, 1, 14, 30, 0, 0)}

(***************************************************************************)
(* Characters and numbers.                                                 *)
(***************************************************************************)
Digit == <<"0", "1", "2", "3", "4", "5", "6", "7", "8", "9">>

IsDigit(c) == \E n \in 1..10 : Digit[n] = c

DigitVal(c) == (CHOOSE n \in 1..10 : Digit[n] = c) - 1

Pow10(k) == IF k = 0 THEN 1 ELSE IF k = 1 THEN 10 ELSE IF k = 2 THEN 100 ELSE 1000

\* n written with w digits, zero padded (dayjs padStart)
Pad(n, w) == [k \in 1..w |-> Digit[((n \div Pow10(w - k)) % 10) + 1]]

\* the number written by the digits text[from..to]
RECURSIVE Num(_, _, _)
Num(t, from, to) ==
    IF to < from THEN 0 ELSE 10 * Num(t, from, to - 1) + DigitVal(t[to])

(***************************************************************************)
(* formatDate: dayjs(date).format('YYYY-MM-DD' | 'YYYY-MM-DD HH:mm')       *)
(***************************************************************************)
DATE_FORMAT(date) ==
    Pad(date.year, 4) \o <<"-">> \o Pad(date.month, 2) \o <<"-">> \o Pad(date.day, 2)

\* DATETIME_FORMAT with the 12-hour token hh in place of HH
DATETIME_FORMAT_12h(date) ==
    DATE_FORMAT(date) \o <<" ">> \o Pad(((date.hour + 11) % 12) + 1, 2)
        \o <<":">> \o Pad(date.minute, 2)

DATETIME_FORMAT(date) ==
    DATE_FORMAT(date) \o <<" ">> \o Pad(date.hour, 2) \o <<":">> \o Pad(date.minute, 2)

formatDate(date, m) ==
    IF m = "date" THEN DATE_FORMAT(date) ELSE DATETIME_FORMAT(date)

(***************************************************************************)
(* dayjs(text, format, true): the strict parse of the customParseFormat    *)
(* plugin.  The format's tokens are matched (YYYY four digits, MM DD HH mm *)
(* two digits, the separators in place), the fields are handed to          *)
(* new Date(y, M - 1, d, h, m, 0, 0), which carries overflowing fields     *)
(* into the next unit, and the parse is valid only if the result formats   *)
(* back to the very text that was parsed.                                  *)
(***************************************************************************)
DigitsAt(t, from, to) == \A k \in from..to : IsDigit(t[k])

MatchesDateTokens(t) ==
    /\ Len(t) >= 10
    /\ DigitsAt(t, 1, 4) /\ t[5] = "-" /\ DigitsAt(t, 6, 7) /\ t[8] = "-"
    /\ DigitsAt(t, 9, 10)

MatchesTokens(t, m) ==
    IF m = "date"
    THEN Len(t) = 10 /\ MatchesDateTokens(t)
    ELSE /\ Len(t) = 16 /\ MatchesDateTokens(t)
         /\ t[11] = " " /\ DigitsAt(t, 12, 13) /\ t[14] = ":" /\ DigitsAt(t, 15, 16)

IsLeap(y) == (y % 4 = 0 /\ y % 100 # 0) \/ y % 400 = 0

DaysInMonth(y, mo) ==
    IF mo = 2 THEN (IF IsLeap(y) THEN 29 ELSE 28)
    ELSE IF mo \in {4, 6, 9, 11} THEN 30 ELSE 31

\* day d of month mo (1..12) of year y, d >= 1 possibly past the month's end
RECURSIVE RollDays(_, _, _)
RollDays(y, mo, d) ==
    IF d <= DaysInMonth(y, mo) THEN <<y, mo, d>>
    ELSE IF mo = 12 THEN RollDays(y + 1, 1, d - DaysInMonth(y, mo))
    ELSE RollDays(y, mo + 1, d - DaysInMonth(y, mo))

\* new Date(y, mo - 1, d, h, mi, 0, 0) with the defaults dayjs gives a
\* zero month (January) and a zero day (1)
NewDate(y, mo, d, h, mi) ==
    LET m0   == IF mo > 0 THEN mo - 1 ELSE 0
        d1   == IF d > 0 THEN d ELSE 1
        h1   == h + (mi \div 60)
        ymd  == RollDays(y + (m0 \div 12), (m0 % 12) + 1, d1 + (h1 \div 24))
    IN  MkDate(ymd[1], ymd[2], ymd[3], h1 % 24, mi % 60, 0, 0)

dayjsStrict(t, m) ==
    IF ~MatchesTokens(t, m) THEN InvalidDate
    ELSE LET d == NewDate(Num(t, 1, 4), Num(t, 6, 7), Num(t, 9, 10),
                          IF m = "date" THEN 0 ELSE Num(t, 12, 13),
                          IF m = "date" THEN 0 ELSE Num(t, 15, 16))
         IN  IF formatDate(d, m) = t THEN d ELSE InvalidDate

(***************************************************************************)
(* parseAndValidateDate and parseDate                                      *)
(***************************************************************************)
\* text.trim() is empty
TrimIsEmpty(t) == \A k \in 1..Len(t) : t[k] = " "

MinYear == 1900
MaxYear == 2100

\* parseAndValidateDate with the year bounds themselves rejected
parseAndValidateDateExclusive(t, m) ==
    IF TrimIsEmpty(t)
    THEN [isValid |-> FALSE, error |-> "Date is required"]
    ELSE LET parsed == dayjsStrict(t, m) IN
         IF parsed = InvalidDate
         THEN [isValid |-> FALSE,
               error |-> IF m = "date"
                         THEN "Invalid format. Expected: YYYY-MM-DD"
                         ELSE "Invalid format. Expected: YYYY-MM-DD HH:mm"]
         ELSE IF parsed.year <= MinYear \/ parsed.year >= MaxYear
         THEN [isValid |-> FALSE, error |-> "Year must be between 1900 and 2100"]
         ELSE [isValid |-> TRUE, error |-> null]

parseAndValidateDate(t, m) ==
    IF TrimIsEmpty(t)
    THEN [isValid |-> FALSE, error |-> "Date is required"]
    ELSE LET parsed == dayjsStrict(t, m) IN
         IF parsed = InvalidDate
         THEN [isValid |-> FALSE,
               error |-> IF m = "date"
                         THEN "Invalid format. Expected: YYYY-MM-DD"
                         ELSE "Invalid format. Expected: YYYY-MM-DD HH:mm"]
         ELSE IF parsed.year < MinYear \/ parsed.year > MaxYear
         THEN [isValid |-> FALSE, error |-> "Year must be between 1900 and 2100"]
         ELSE IF m = "datetime" /\ (parsed.hour < 0 \/ parsed.hour > 23)
         THEN [isValid |-> FALSE, error |-> "Hour must be between 00 and 23"]
         ELSE IF m = "datetime" /\ (parsed.minute < 0 \/ parsed.minute > 59)
         THEN [isValid |-> FALSE, error |-> "Minute must be between 00 and 59"]
         ELSE [isValid |-> TRUE, error |-> null]

\* the Date, or undefined for the null parseDate returns
parseDate(t, m) ==
    IF ~parseAndValidateDate(t, m).isValid THEN undefined ELSE dayjsStrict(t, m)

(***************************************************************************)
(* What the user types.                                                    *)
(***************************************************************************)
TypedDate(y, mo, d) == Pad(y, 4) \o <<"-">> \o Pad(mo, 2) \o <<"-">> \o Pad(d, 2)

TypedDateTime(y, mo, d, h, mi) ==
    TypedDate(y, mo, d) \o <<" ">> \o Pad(h, 2) \o <<":">> \o Pad(mi, 2)

\* texts that are no date of the mode: empty, blank, partially typed, a year
\* out of range, an hour out of range
OddTexts ==
    { <<>>, <<" ">>, SubSeq(TypedDate(2024, 6, 1), 1, 7),
      TypedDate(1899, 12, 31), TypedDateTime(1899, 12, 31, 14, 30),
      TypedDateTime(2024, 6, 1, 24, 0) }

\* the texts of the Dates of the model, in either mode, and the odd ones
UserTexts == {formatDate(d, m) : d \in Instants, m \in Modes} \cup OddTexts

\* parseAndValidateDate and parseDate of every text the user types, per mode
Validations == [m \in Modes |-> [t \in UserTexts |-> parseAndValidateDate(t, m)]]

Parses == [m \in Modes |-> [t \in UserTexts |-> parseDate(t, m)]]

(***************************************************************************)
(* The component.                                                          *)
(***************************************************************************)
\* Platform.OS === 'android' && mode === 'datetime'
TwoStep == platform = "android" /\ mode = "datetime"

Event(op, type, t, d) == [op |-> op, type |-> type, text |-> t, date |-> d]

\* the Dates the form starts from (index.tsx: defaultValues, new Date())
HostDates == {d \in Instants : d.year = 2024}

\* index.tsx: defaultValues; datepicker.tsx: the useState initial values
Init ==
    /\ value \in HostDates
    /\ mode \in Modes
    /\ platform \in Platforms
    /\ show = FALSE
    /\ pickerMode = "date"
    /\ tempDate = value
    /\ text = formatDate(value, mode)
    /\ error = null
    /\ touched = FALSE
    /\ ev = Event("mount", "", <<>>, undefined)
    /\ emitted = <<>>
    /\ typed = FALSE
    /\ pickedDate = undefined
    /\ sessionEmits = 0

\* SyncEffect without the `!touched` test
SyncEffectIgnoresTouched(t, v, tch) ==
    LET formatted == formatDate(v, mode) IN
    IF t # formatted THEN formatted ELSE t

\* SyncEffect formatting with DATE_FORMAT whatever the mode
SyncEffectDateOnly(t, v, tch) ==
    LET formatted == formatDate(v, "date") IN
    IF t # formatted /\ ~tch THEN formatted ELSE t

\* the text the useEffect on [value, mode] leaves, run after a render in
\* which `value` is v, `text` is t and `touched` is tch
SyncEffect(t, v, tch) ==
    LET formatted == formatDate(v, mode) IN
    IF t # formatted /\ ~tch THEN formatted ELSE t

\* ValueChange with `value` missing from the effect's dependencies
ValueChangeNoEffect(J) ==
    /\ value' = J
    /\ ev' = Event("valueChange", "", <<>>, J)
    /\ emitted' = <<>>
    /\ UNCHANGED <<mode, platform, show, pickerMode, tempDate, text, error,
                   touched, typed, pickedDate, sessionEmits>>

\* the host re-renders the component with a new `value`; the effect runs
ValueChange(J) ==
    /\ value' = J
    /\ text' = SyncEffect(text, J, touched)
    /\ typed' = (typed /\ text' = text)
    /\ ev' = Event("valueChange", "", <<>>, J)
    /\ emitted' = <<>>
    /\ UNCHANGED <<mode, platform, show, pickerMode, tempDate, error, touched,
                   pickedDate, sessionEmits>>

\* openPicker without setPickerMode('date')
openPickerKeepsStep ==
    /\ tempDate' = value
    /\ show' = TRUE
    /\ ev' = Event("openPicker", "", <<>>, undefined)
    /\ emitted' = <<>>
    /\ pickedDate' = undefined
    /\ sessionEmits' = 0
    /\ UNCHANGED <<value, mode, platform, pickerMode, text, error, touched, typed>>

openPicker ==
    /\ tempDate' = value
    /\ pickerMode' = "date"
    /\ show' = TRUE
    /\ ev' = Event("openPicker", "", <<>>, undefined)
    /\ emitted' = <<>>
    /\ pickedDate' = undefined
    /\ sessionEmits' = 0
    /\ UNCHANGED <<value, mode, platform, text, error, touched, typed>>

\* field.onChange of the Controller: the host takes the emitted Date as the
\* new `value`, and the component renders again with it
HostApplies(final) ==
    /\ emitted' = <<final>>
    /\ value' = final

\* PickerDismissed also putting the text back and dropping the error
PickerDismissedReverts(type, selectedDate) ==
    /\ type = "dismissed"
    /\ show' = FALSE
    /\ emitted' = <<>>
    /\ text' = formatDate(value, mode)
    /\ error' = null
    /\ typed' = FALSE
    /\ UNCHANGED <<value, pickerMode, tempDate, pickedDate, sessionEmits>>

\* event.type === 'dismissed'
PickerDismissed(type, selectedDate) ==
    /\ type = "dismissed"
    /\ show' = FALSE
    /\ emitted' = <<>>
    /\ UNCHANGED <<value, pickerMode, tempDate, text, error, typed,
                   pickedDate, sessionEmits>>

\* !selectedDate
PickerNoDate(type, selectedDate) ==
    /\ type # "dismissed"
    /\ selectedDate = undefined
    /\ emitted' = <<>>
    /\ UNCHANGED <<value, show, pickerMode, tempDate, text, error, typed,
                   pickedDate, sessionEmits>>

\* PickerDateStep also reporting the date it was given to onChange
PickerDateStepEmits(type, selectedDate) ==
    /\ type # "dismissed"
    /\ selectedDate # undefined
    /\ TwoStep
    /\ pickerMode = "date"
    /\ tempDate' = selectedDate
    /\ pickerMode' = "time"
    /\ pickedDate' = selectedDate
    /\ HostApplies(selectedDate)
    /\ sessionEmits' = sessionEmits + 1
    /\ UNCHANGED <<show, text, error, typed>>

\* PickerDateStep also writing the chosen date into the text
PickerDateStepWritesText(type, selectedDate) ==
    /\ type # "dismissed"
    /\ selectedDate # undefined
    /\ TwoStep
    /\ pickerMode = "date"
    /\ tempDate' = selectedDate
    /\ pickerMode' = "time"
    /\ pickedDate' = selectedDate
    /\ emitted' = <<>>
    /\ text' = formatDate(selectedDate, mode)
    /\ typed' = FALSE
    /\ UNCHANGED <<value, show, error, sessionEmits>>

\* Android datetime mode, the date picker answered
PickerDateStep(type, selectedDate) ==
    /\ type # "dismissed"
    /\ selectedDate # undefined
    /\ TwoStep
    /\ pickerMode = "date"
    /\ tempDate' = selectedDate
    /\ pickerMode' = "time"
    /\ pickedDate' = selectedDate
    /\ emitted' = <<>>
    /\ UNCHANGED <<value, show, text, error, typed, sessionEmits>>

\* CombineDateTime starting from the time picker's Date instead of tempDate
CombineFromSelected(temp, selectedDate) ==
    [selectedDate EXCEPT !.second = 0, !.ms = 0]

\* dayjs(tempDate).hour(..).minute(..).second(0).millisecond(0).toDate()
CombineDateTime(temp, selectedDate) ==
    [temp EXCEPT !.hour = selectedDate.hour, !.minute = selectedDate.minute,
                 !.second = 0, !.ms = 0]

\* Android datetime mode, the time picker answered
PickerTimeStep(type, selectedDate) ==
    /\ type # "dismissed"
    /\ selectedDate # undefined
    /\ TwoStep
    /\ pickerMode # "date"
    /\ LET final == CombineDateTime(tempDate, selectedDate) IN
         /\ HostApplies(final)
         /\ text' = SyncEffect(formatDate(final, mode), final, touched)
    /\ error' = null
    /\ show' = FALSE
    /\ typed' = FALSE
    /\ sessionEmits' = sessionEmits + 1
    /\ UNCHANGED <<pickerMode, tempDate, pickedDate>>

\* PickerSingleStep without setText, the text left to the effect
PickerSingleStepNoSetText(type, selectedDate) ==
    /\ type # "dismissed"
    /\ selectedDate # undefined
    /\ ~TwoStep
    /\ HostApplies(selectedDate)
    /\ text' = SyncEffect(text, selectedDate, touched)
    /\ error' = null
    /\ show' = FALSE
    /\ typed' = (typed /\ text' = text)
    /\ sessionEmits' = sessionEmits + 1
    /\ UNCHANGED <<pickerMode, tempDate, pickedDate>>

\* iOS, or Android date-only mode
PickerSingleStep(type, selectedDate) ==
    /\ type # "dismissed"
    /\ selectedDate # undefined
    /\ ~TwoStep
    /\ HostApplies(selectedDate)
    /\ text' = SyncEffect(formatDate(selectedDate, mode), selectedDate, touched)
    /\ error' = null
    /\ show' = FALSE
    /\ typed' = FALSE
    /\ sessionEmits' = sessionEmits + 1
    /\ UNCHANGED <<pickerMode, tempDate, pickedDate>>

\* The DateTimePicker is rendered, and answers, only while `show`; the
\* dismissal it reports when it is taken down can arrive after `show` is off.
handlePickerChange(type, selectedDate) ==
    /\ show \/ type = "dismissed"
    /\ ev' = Event("handlePickerChange", type, <<>>, selectedDate)
    /\ \/ PickerDismissed(type, selectedDate)
       \/ PickerNoDate(type, selectedDate)
       \/ PickerDateStep(type, selectedDate)
       \/ PickerTimeStep(type, selectedDate)
       \/ PickerSingleStep(type, selectedDate)
    /\ UNCHANGED <<mode, platform, touched>>

\* handleTextChange emitting whatever dayjs parses, the range checks skipped
handleTextChangeUnchecked(inputText) ==
    LET parsed == dayjsStrict(inputText, mode) IN
    /\ touched' = TRUE
    /\ typed' = TRUE
    /\ ev' = Event("handleTextChange", "", inputText, undefined)
    /\ IF TrimIsEmpty(inputText) \/ parsed = InvalidDate
       THEN /\ text' = inputText
            /\ error' = Validations[mode][inputText].error
            /\ emitted' = <<>>
            /\ UNCHANGED value
       ELSE /\ HostApplies(parsed)
            /\ text' = SyncEffect(inputText, parsed, TRUE)
            /\ error' = null
    /\ UNCHANGED <<mode, platform, show, pickerMode, tempDate, pickedDate,
                   sessionEmits>>

\* handleTextChange without setError(null) after a valid parse
handleTextChangeKeepsError(inputText) ==
    LET validation == Validations[mode][inputText]
        parsed == Parses[mode][inputText]
    IN
    /\ touched' = TRUE
    /\ typed' = TRUE
    /\ ev' = Event("handleTextChange", "", inputText, undefined)
    /\ IF ~validation.isValid
       THEN /\ text' = inputText
            /\ error' = validation.error
            /\ emitted' = <<>>
            /\ UNCHANGED value
       ELSE /\ HostApplies(parsed)
            /\ text' = SyncEffect(inputText, parsed, TRUE)
            /\ UNCHANGED error
    /\ UNCHANGED <<mode, platform, show, pickerMode, tempDate, pickedDate,
                   sessionEmits>>

handleTextChange(inputText) ==
    LET validation == Validations[mode][inputText]
        parsed == Parses[mode][inputText]
    IN
    /\ touched' = TRUE
    /\ typed' = TRUE
    /\ ev' = Event("handleTextChange", "", inputText, undefined)
    /\ IF ~validation.isValid
       THEN /\ text' = inputText
            /\ error' = validation.error
            /\ emitted' = <<>>
            /\ UNCHANGED value
       ELSE IF parsed # undefined
       THEN /\ HostApplies(parsed)
            /\ text' = SyncEffect(inputText, parsed, TRUE)
            /\ error' = null
       ELSE /\ text' = inputText
            /\ emitted' = <<>>
            /\ UNCHANGED <<value, error>>
    /\ UNCHANGED <<mode, platform, show, pickerMode, tempDate, pickedDate,
                   sessionEmits>>

\* handleBlur reporting the value to onChange
handleBlurCommits ==
    /\ touched' = TRUE
    /\ text' = IF error # null THEN formatDate(value, mode) ELSE text
    /\ typed' = (typed /\ error = null)
    /\ ev' = Event("handleBlur", "", <<>>, undefined)
    /\ emitted' = <<value>>
    /\ UNCHANGED <<value, mode, platform, show, pickerMode, tempDate, error,
                   pickedDate, sessionEmits>>

\* handleBlur reverting to the picker's tempDate instead of the value
handleBlurRevertsToTemp ==
    /\ touched' = TRUE
    /\ text' = IF error # null THEN formatDate(tempDate, mode) ELSE text
    /\ typed' = (typed /\ error = null)
    /\ ev' = Event("handleBlur", "", <<>>, undefined)
    /\ emitted' = <<>>
    /\ UNCHANGED <<value, mode, platform, show, pickerMode, tempDate, error,
                   pickedDate, sessionEmits>>

handleBlur ==
    /\ touched' = TRUE
    /\ text' = IF error # null THEN formatDate(value, mode) ELSE text
    /\ typed' = (typed /\ error = null)
    /\ ev' = Event("handleBlur", "", <<>>, undefined)
    /\ emitted' = <<>>
    /\ UNCHANGED <<value, mode, platform, show, pickerMode, tempDate, error,
                   pickedDate, sessionEmits>>

\* what the native picker reports: a 'set' with or without a Date, or a
\* dismissal
PickerEvents ==
    {<<"set", d>> : d \in Instants \cup {undefined}} \cup {<<"dismissed", undefined>>}

Next ==
    \/ \E J \in Instants : ValueChange(J)
    \/ openPicker
    \/ \E e \in PickerEvents : handlePickerChange(e[1], e[2])
    \/ \E t \in UserTexts : handleTextChange(t)
    \/ handleBlur

Spec == Init /\ [][Next]_vars

(***************************************************************************)
(* formatDate, parseAndValidateDate and parseDate on their own: a Date is  *)
(* formatted and the text parsed back, or a typed text is parsed.  `value` *)
(* holds the Date, `text` the text, `error` the validation's error and     *)
(* `tempDate` what parseDate returns.                                      *)
(***************************************************************************)
\* valid Dates with seconds zero, the year bounds and month ends among them
FnDates ==
    {MkDate(y, mo, d, t[1], t[2], 0, 0) :
        y \in {1900, 2024, 2100}, mo \in {1, 2, 12}, d \in (1..MaxDay) \cup {28},
        t \in {<<0, 0>>, <<14, 30>>, <<23, 59>>}}

\* typed texts: the odd ones, the year bounds, fields out of range, slack
FnTexts ==
    OddTexts \cup
    { TypedDate(1900, 1, 1), TypedDate(2100, 12, 31), TypedDate(2101, 1, 1),
      TypedDate(1850, 13, 40), TypedDate(2024, 2, 30), TypedDate(2024, 2, 29),
      TypedDate(2024, 6, 1) \o <<" ">>, <<" ">> \o TypedDate(2024, 6, 1),
      <<"2", "0", "2", "4", "-", "6", "-", "1">>, <<" ", " ">>,
      TypedDateTime(1900, 1, 1, 0, 0), TypedDateTime(2100, 12, 31, 23, 59),
      TypedDateTime(2101, 1, 1, 0, 0), TypedDateTime(2024, 6, 1, 14, 60),
      TypedDateTime(2024, 6, 1, 24, 60), TypedDateTime(2024, 6, 1, 23, 59),
      TypedDateTime(1850, 13, 40, 14, 30), TypedDateTime(1899, 12, 31, 24, 0) }

FnInit ==
    /\ mode \in Modes
    /\ \/ value \in FnDates /\ text = <<>> /\ ev = Event("input", "format", <<>>, undefined)
       \/ value = undefined /\ text \in FnTexts /\ ev = Event("input", "typed", <<>>, undefined)
    /\ platform = "ios"
    /\ show = FALSE
    /\ pickerMode = "date"
    /\ tempDate = undefined
    /\ error = null
    /\ touched = FALSE
    /\ emitted = <<>>
    /\ typed = FALSE
    /\ pickedDate = undefined
    /\ sessionEmits = 0

\* text := formatDate(value, mode)
FnFormat ==
    /\ ev.op = "input" /\ ev.type = "format"
    /\ text' = formatDate(value, mode)
    /\ ev' = Event("formatted", "format", <<>>, undefined)
    /\ UNCHANGED <<value, mode, platform, show, pickerMode, tempDate, error,
                   touched, emitted, typed, pickedDate, sessionEmits>>

\* error := parseAndValidateDate(text, mode).error; tempDate := parseDate(text, mode)
FnParse ==
    /\ \/ ev.op = "formatted"
       \/ ev.op = "input" /\ ev.type = "typed"
    /\ error' = parseAndValidateDate(text, mode).error
    /\ tempDate' = parseDate(text, mode)
    /\ ev' = Event("parsed", ev.type, <<>>, undefined)
    /\ UNCHANGED <<value, mode, platform, show, pickerMode, text, touched,
                   emitted, typed, pickedDate, sessionEmits>>

FnNext == FnFormat \/ FnParse

FnSpec == FnInit /\ [][FnNext]_vars

(***************************************************************************)
(* Properties.                                                             *)
(***************************************************************************)
\* validate(t, mode) of the running instance, for a text the user typed
IsValidText(t) == Validations[mode][t].isValid

\* the last event / the event of the step
IsEdit(e) == e.op = "handleTextChange"
IsBlur(e) == e.op = "handleBlur"
IsValueChange(e) == e.op = "valueChange"
IsSelection(e) == e.op = "handlePickerChange" /\ e.type = "set"
IsDismissal(e) == e.op = "handlePickerChange" /\ e.type = "dismissed"

\* C1: an edit with a text that validates as Invalid calls onChange for
\* nothing, leaves the value as it is, and leaves exactly that text in the
\* field.
C1_NoSilentCorruption ==
    [][ (IsEdit(ev') /\ ~IsValidText(ev'.text))
          => (emitted' = <<>> /\ value' = value /\ text' = ev'.text) ]_vars

C1_Witness ==
    /\ IsEdit(ev) /\ ~IsValidText(ev.text)
    /\ text = ev.text /\ emitted = <<>> /\ text # formatDate(value, mode)

\* C2: whenever an event calls onChange, the event is a user edit with a text
\* that validates as Valid, or a picker selection that closes the picker and
\* is not the date step of a two-step session; blurs, value changes, opening
\* and dismissals call it for nothing.
C2_EmissionOrigin ==
    [][ emitted' # <<>>
          => \/ IsEdit(ev') /\ IsValidText(ev'.text)
             \/ /\ IsSelection(ev') /\ ev'.date # undefined
                /\ show /\ ~show'
                /\ ~(TwoStep /\ pickerMode = "date") ]_vars

C2_Witness ==
    /\ IsEdit(ev) /\ IsValidText(ev.text) /\ emitted = <<value>> /\ show

\* C3: while touched is set, which every user edit does, a change of the
\* value by the host leaves the text as it is.
C3_DirtySuppression ==
    [][ (IsValueChange(ev') /\ touched) => text' = text ]_vars

C3_Witness ==
    /\ IsValueChange(ev) /\ touched /\ typed
    /\ value = ev.date /\ text # formatDate(value, mode)

\* C4: while touched is not set, a change of the value to J by the host
\* leaves the text formatDate(J, mode), in both modes.
C4_CleanSync ==
    [][ (IsValueChange(ev') /\ ~touched)
          => (value' = ev'.date /\ text' = formatDate(ev'.date, mode)) ]_vars

C4_Witness ==
    /\ IsValueChange(ev) /\ ~touched /\ mode = "datetime"
    /\ value # tempDate /\ ~show /\ text = formatDate(value, mode)

\* C5: a blur in a state whose text was typed by the user and validates as
\* Invalid leaves the text formatDate(value, mode), the value being untouched.
C5_BlurRevertsText ==
    [][ (IsBlur(ev') /\ typed /\ ~IsValidText(text))
          => (text' = formatDate(value, mode) /\ value' = value) ]_vars

C5_Witness ==
    /\ IsBlur(ev) /\ error # null /\ ~typed /\ text = formatDate(value, mode)

\* C6: a blur in a state whose text was typed by the user and validates as
\* Invalid clears the stored error.
C6_BlurClearsError ==
    [][ (IsBlur(ev') /\ typed /\ ~IsValidText(text)) => error' = null ]_vars

\* C7: in a two-step session, the selection of the time step emits exactly
\* one Date: year, month and day of the Date the date step delivered, hour
\* and minute of the Date the time step delivers, seconds and milliseconds 0.
C7_TwoStepComposition ==
    [][ (IsSelection(ev') /\ ev'.date # undefined /\ TwoStep
           /\ show /\ pickedDate # undefined)
          => emitted' = << MkDate(pickedDate.year, pickedDate.month, pickedDate.day,
                                  ev'.date.hour, ev'.date.minute, 0, 0) >> ]_vars

C7_Witness ==
    /\ IsSelection(ev) /\ TwoStep /\ ~show /\ pickedDate # undefined
    /\ ev.date.day # pickedDate.day /\ ev.date.hour # pickedDate.hour
    /\ pickedDate.second # 0
    /\ emitted = << MkDate(pickedDate.year, pickedDate.month, pickedDate.day,
                           ev.date.hour, ev.date.minute, 0, 0) >>

\* C8: the picker has called onChange for nothing while its session is open,
\* exactly once when a selection closes the session, and for nothing when a
\* dismissal closes it, whether the session has one step or two.
C8_OneEmissionPerSession ==
    [][ /\ show' => sessionEmits' = 0
        /\ (show /\ ~show' /\ IsSelection(ev'))
             => (sessionEmits' = 1 /\ Len(emitted') = 1)
        /\ (show /\ ~show' /\ IsDismissal(ev'))
             => (sessionEmits' = 0 /\ emitted' = <<>>) ]_vars

C8_Witness ==
    /\ IsSelection(ev) /\ TwoStep /\ ~show /\ sessionEmits = 1 /\ Len(emitted) = 1

\* C9: a dismissal leaves the picker closed, calls onChange for nothing and
\* leaves value, text and error as they are; with the picker already closed
\* it changes nothing at all.
C9_DismissNoOp ==
    [][ IsDismissal(ev')
          => /\ ~show' /\ emitted' = <<>>
             /\ UNCHANGED <<value, text, error>>
             /\ ~show => UNCHANGED <<show, pickerMode, tempDate, touched, mode,
                                     platform>> ]_vars

C9_Witness ==
    /\ IsDismissal(ev) /\ ~show /\ pickerMode = "time" /\ error # null /\ typed

\* C10: every Date passed to onChange has seconds and milliseconds 0.
C10_SecondsZero ==
    \A k \in 1..Len(emitted) : emitted[k].second = 0 /\ emitted[k].ms = 0

\* a Date was formatted and the text parsed back / a typed text was parsed
RoundTripDone == ev.op = "parsed" /\ ev.type = "format"
TypedParsed == ev.op = "parsed" /\ ev.type = "typed"

\* C11 as stated: parseDate(formatDate(I, mode), mode) = I in both modes,
\* for every valid Date I with a year in 1900..2100 and seconds zero.
C11_RoundTrip == RoundTripDone => tempDate = value

\* C11 amended: parseDate(formatDate(I, mode), mode) is I in datetime mode,
\* and I with hour and minute set to zero in date mode.
C11_RoundTripByMode ==
    RoundTripDone
      => tempDate = IF mode = "datetime" THEN value
                    ELSE [value EXCEPT !.hour = 0, !.minute = 0]

C11_Witness ==
    /\ RoundTripDone /\ mode = "date" /\ value.hour = 14
    /\ tempDate = [value EXCEPT !.hour = 0, !.minute = 0]

\* the fields a text of the datetime shape writes
TextYear(t) == Num(t, 1, 4)
TextMonth(t) == Num(t, 6, 7)
TextDay(t) == Num(t, 9, 10)
TextHour(t) == Num(t, 12, 13)
TextMinute(t) == Num(t, 15, 16)

\* year in 1900..2100 and a day of the calendar
DateFieldsInRange(t) ==
    /\ TextYear(t) >= 1900 /\ TextYear(t) <= 2100
    /\ TextMonth(t) \in 1..12
    /\ TextDay(t) \in 1..DaysInMonth(TextYear(t), TextMonth(t))

\* C12: in datetime mode a text of the pattern's shape whose date fields are
\* in range is reported with the hour message when its hour is above 23, and
\* with the minute message when its hour is in range and its minute above 59.
C12_HourMinuteReason ==
    (TypedParsed /\ mode = "datetime" /\ MatchesTokens(text, mode)
       /\ DateFieldsInRange(text))
      => /\ TextHour(text) > 23 => error = "Hour must be between 00 and 23"
         /\ (TextHour(text) <= 23 /\ TextMinute(text) > 59)
              => error = "Minute must be between 00 and 59"

\* the text keeps the calendar and the clock: the strict pattern of the mode
WellFormed(t, m) ==
    /\ MatchesTokens(t, m)
    /\ TextMonth(t) \in 1..12
    /\ TextDay(t) \in 1..DaysInMonth(TextYear(t), TextMonth(t))
    /\ m = "datetime" => (TextHour(t) <= 23 /\ TextMinute(t) <= 59)

FormatMessage(m) ==
    IF m = "date" THEN "Invalid format. Expected: YYYY-MM-DD"
    ELSE "Invalid format. Expected: YYYY-MM-DD HH:mm"

C14_ValidEditEmits ==
    [][ (IsEdit(ev') /\ IsValidText(ev'.text))
          => /\ emitted' = << Parses[mode][ev'.text] >>
             /\ formatDate(emitted'[1], mode) = ev'.text
             /\ emitted'[1].second = 0 /\ emitted'[1].ms = 0
             /\ text' = ev'.text
             /\ error' = null ]_vars

C14_Witness ==
    /\ IsEdit(ev) /\ IsValidText(ev.text) /\ text = ev.text /\ error = null
    /\ emitted = << Parses[mode][ev.text] >> /\ ~show

\* C15: a blur in a state whose text validates as Valid leaves the text and
\* the stored error as they are.
C15_BlurValidNoChange ==
    [][ (IsBlur(ev') /\ parseAndValidateDate(text, mode).isValid)
          => (text' = text /\ error' = error) ]_vars

\* C16: after a valid edit, or after a blur that discarded an invalid edit,
\* the dirty flag is off again, and a change of the value to J by the host
\* leaves the text formatDate(J, mode).
C16_DirtyResets ==
    [][ (IsValueChange(ev')
           /\ \/ IsEdit(ev) /\ IsValidText(ev.text)
              \/ IsBlur(ev) /\ error # null)
          => (~touched /\ text' = formatDate(ev'.date, mode)) ]_vars

\* C17: in a two-step session, a selection in the date step stores the Date
\* in tempDate and moves to the time step with the picker still shown; it
\* calls onChange for nothing and leaves value, text and error as they are.
C17_DateStepFrame ==
    [][ (IsSelection(ev') /\ ev'.date # undefined /\ TwoStep
           /\ show /\ pickerMode = "date")
          => /\ tempDate' = ev'.date /\ pickerMode' = "time" /\ show'
             /\ emitted' = <<>>
             /\ UNCHANGED <<value, text, error>> ]_vars

C17_Witness ==
    /\ IsSelection(ev) /\ TwoStep /\ show /\ pickerMode = "time"
    /\ tempDate = ev.date /\ tempDate # value /\ error # null

\* C18: openPicker leaves the picker shown in the date step with tempDate the
\* current value, however the session before ended.
C18_OpenStartsAtDate ==
    [][ ev'.op = "openPicker"
          => (show' /\ pickerMode' = "date" /\ tempDate' = value /\ value' = value) ]_vars

\* the value 09:05:00.000 of an untouched field can only be the Date a time
\* step composed: a session was completed before this one was opened
C18_Witness ==
    /\ ev.op = "openPicker" /\ TwoStep /\ ~touched
    /\ value.hour = 9 /\ value.second = 0
    /\ show /\ pickerMode = "date" /\ tempDate = value

\* C19: a selection that calls onChange with F leaves the text
\* formatDate(F, mode), no stored error and the picker closed, whatever the
\* text and the dirty flag were.
C19_SelectionWritesText ==
    [][ (IsSelection(ev') /\ emitted' # <<>>)
          => (text' = formatDate(emitted'[1], mode) /\ error' = null /\ ~show') ]_vars

C19_Witness ==
    /\ IsSelection(ev) /\ emitted # <<>> /\ touched /\ ~TwoStep
    /\ text = formatDate(emitted[1], mode) /\ error = null /\ ~show

\* C20: while touched is not set, the text is formatDate(value, mode) and no
\* error is stored.
C20_CleanMeansSynced ==
    ~touched => (text = formatDate(value, mode) /\ error = null)

C20_Witness ==
    /\ ~touched /\ IsValueChange(ev) /\ value.year = 1850
    /\ text = formatDate(value, mode) /\ error = null

====
